---------------------------- MODULE Spec2Model ----------------------------
(***************************************************************************)
(* cThreadSafeCircularBuffer<T> (ThreadSafeCircularBuffer.h): a ring of    *)
(* cBufferElement<T> slots shared by producer and consumer threads, guarded*)
(* by one boost::mutex and two boost::condition_variable objects.          *)
(*                                                                         *)
(* Every member function that takes m_oMutex holds it for its whole body,  *)
(* so each such body is one atomic action.  The only place the mutex is    *)
(* given up inside a body is timed_wait, which splits getNextReadIndex and *)
(* getNextWriteIndex into the part before the wait and the part after it.  *)
(*                                                                         *)
(* boost::condition_variable::timed_wait(lock, duration) unblocks "when    *)
(* notified by a call to notify_one() or notify_all(), when the time       *)
(* [...] is reached, or spuriously", and returns false only when it        *)
(* returns because the time was reached (Boost.Thread reference; the       *)
(* pthread implementation returns true whenever pthread_cond_timedwait     *)
(* returns 0).  All three outcomes are modelled.  notify_one wakes one     *)
(* thread that is blocked on the condition, if any, and is otherwise       *)
(* forgotten.                                                              *)
(***************************************************************************)
EXTENDS Integers, Sequences, FiniteSets

----------------------------------------------------------------------------
(* Bounds of the model *)

\* number of slots the ring is constructed with (u32NElements)
NElements == 2

\* number of T values per slot (u32ElementSize)
ElementSize == 2

\* m_u32Level is a uint32_t: arithmetic on it is modulo 2^32.  The model
\* keeps the wrap-around and shortens the cycle to LevelModulus values.
LevelModulus == 4

\* batches are tagged with their commit number, counted like the level
SeqModulus == LevelModulus

\* number of values of an unsigned short, the type allocationSize() and
\* dataSize() return
UShortModulus == 65536

\* the default of u32Timeout_ms, UINT_MAX milliseconds: the longest wait a
\* caller can ask for.  The model shortens it to this many ticks.
UINT_MAX == 1

----------------------------------------------------------------------------
Producers == {"p1", "p2"}
Consumers == {"c1", "c2"}
Threads   == Producers \cup Consumers

\* the value getNextReadIndex / getNextWriteIndex / tryToGetNextWriteIndex
\* return when no index is available
Sentinel == -1

VARIABLES
    m_vTCircularBuffer,   \* sequence of slots; slot i of the code is [i + 1]
    m_vi64Timestamps_us,  \* sequence of timestamps, indexed like the slots
    m_u32ReadIndex,
    m_u32WriteIndex,
    m_u32Level,
    alive,                \* FALSE once the destructor has run
    pc,                   \* per thread: "off", "idle" or "waiting" (in timed_wait)
    wake,                 \* per thread in timed_wait: why it was woken, or "none"
    ret,                  \* per thread: value returned by its last acquire call
                          \* since its last commit
    held,                 \* per thread: the index it acquired and has not yet
                          \* committed (Sentinel: none)
    via,                  \* per thread: the acquire call it made last (history)
    again,                \* per thread: it was returned an index while it
                          \* already had one (history)
    filled,               \* per producer: has written the slot it acquired
    u32Timeout_ms,        \* per thread: the duration of the timed_wait it
                          \* is blocked in, or of its last call if that
                          \* timed out
    elapsed,              \* per thread blocked in timed_wait: milliseconds
                          \* it has been blocked
    nWritten,             \* number of elementWritten calls since construction
                          \* or the last clear(), modulo SeqModulus (history)
    nRead,                \* number of elementRead calls since construction
                          \* or the last clear(), modulo SeqModulus (history)
    jWrite,               \* number of elementWritten calls since construction
                          \* or the last clear(), modulo the number of slots
                          \* (history)
    sent                  \* history kept by the specifications that start it
                          \* with one entry per slot: <<b>> when the batch b
                          \* was committed in the slot and has not been
                          \* released, else <<>>.  The empty sequence: no
                          \* history is kept.

vars == <<m_vTCircularBuffer, m_vi64Timestamps_us, m_u32ReadIndex,
          m_u32WriteIndex, m_u32Level, alive, pc, wake, ret, held,
          via, again, filled, u32Timeout_ms, elapsed, nWritten, nRead,
          jWrite, sent>>

ring    == <<m_vTCircularBuffer, m_vi64Timestamps_us, m_u32ReadIndex,
             m_u32WriteIndex, m_u32Level>>

----------------------------------------------------------------------------
(* cBufferElement<T> *)

\* a value-initialised element resized to n samples
cBufferElement(n) ==
    [m_vTElement |-> [i \in 1 .. n |-> 0],
     m_u32DataStartIndex |-> 0,
     m_u32DataSize |-> 0]

setEmpty(e) ==
    [e EXCEPT !.m_u32DataSize = 0, !.m_u32DataStartIndex = 0]

setDataSpan(e, u32StartIndex, u32Size) ==
    [e EXCEPT !.m_u32DataSize = u32Size, !.m_u32DataStartIndex = u32StartIndex]

setFull(e) ==
    [e EXCEPT !.m_u32DataSize = Len(e.m_vTElement), !.m_u32DataStartIndex = 0]

setDataUsed(e, u32Size) ==
    [e EXCEPT !.m_u32DataSize = @ - u32Size, !.m_u32DataStartIndex = @ + u32Size]

setDataAdded(e, u32Size) ==
    [e EXCEPT !.m_u32DataSize = @ + u32Size]

\* the caller's write of k copies of v through getDataStartPointer()
\* of an element whose span starts at 0
writeData(e, k, v) ==
    [e EXCEPT !.m_vTElement =
        [i \in DOMAIN e.m_vTElement |-> IF i <= k THEN v ELSE e.m_vTElement[i]]]

\* unsigned short allocationSize(): m_vTElement.size() converted to the
\* return type
allocationSize(e) == Len(e.m_vTElement) % UShortModulus

\* unsigned short dataSize(): m_u32DataSize converted to the return type
dataSize(e) == e.m_u32DataSize % UShortModulus

\* std::vector::resize(n): the first n values are kept and value-initialised
\* ones are added after them
vector_resize(v, n, fresh) ==
    [i \in 1 .. n |-> IF i <= Len(v) THEN v[i] ELSE fresh]

\* cBufferElement::resize(u32NSamples): the span is not touched
resizeElement(e, u32NSamples) ==
    [e EXCEPT !.m_vTElement = vector_resize(@, u32NSamples, 0)]

\* the values the element's span designates: what a reader takes from
\* getDataStartPointer() for dataSize() values
spanData(e) ==
    [i \in 1 .. e.m_u32DataSize |->
        IF e.m_u32DataStartIndex + i \in DOMAIN e.m_vTElement
        THEN e.m_vTElement[e.m_u32DataStartIndex + i]
        ELSE 0]

----------------------------------------------------------------------------
(* cThreadSafeCircularBuffer<T> *)

\* m_vTCircularBuffer.size()
size == Len(m_vTCircularBuffer)

\* getElementPointer(uiIndex): the slot at an index
getElementPointer(uiIndex) == m_vTCircularBuffer[uiIndex + 1]

\* uint32_t arithmetic
U32(x) == x % LevelModulus

\* index++ ; if(index >= size()) index = 0
advance(u32Index) == IF u32Index + 1 >= size THEN 0 ELSE u32Index + 1

\* threads blocked in timed_wait on the condition of a role and not yet woken
Blocked(Role) == {u \in Role : pc[u] = "waiting" /\ wake[u] = "none"}

\* m_oConditionReadPossible is the condition of the consumers,
\* m_oConditionWritePossible that of the producers
notify_one(Role, cause) ==
    IF Blocked(Role) = {}
    THEN wake' = wake
    ELSE \E u \in Blocked(Role) : wake' = [wake EXCEPT ![u] = cause]

notify_all(cause) ==
    wake' = [u \in Threads |->
                IF pc[u] = "waiting" /\ wake[u] = "none" THEN cause ELSE wake[u]]

\* the threads in S are no longer blocked in a timed_wait, or have
\* committed: their timers are over
stop_timers(S) ==
    /\ u32Timeout_ms' = [u \in Threads |-> IF u \in S THEN 0 ELSE u32Timeout_ms[u]]
    /\ elapsed' = [u \in Threads |-> IF u \in S THEN 0 ELSE elapsed[u]]

\* the threads a step wakes
Woken == {u \in Threads : wake'[u] # wake[u]}

\* the state after cThreadSafeCircularBuffer(u32NElements, u32ElementSize)
Constructed(u32NElements, u32ElementSize) ==
    /\ m_vTCircularBuffer = [i \in 1 .. u32NElements |-> cBufferElement(u32ElementSize)]
    /\ m_vi64Timestamps_us = [i \in 1 .. u32NElements |-> 0]
    /\ m_u32ReadIndex = 0
    /\ m_u32WriteIndex = 0
    /\ m_u32Level = 0

\* threads `active` exist and are outside any call; the others never run
Started(active) ==
    /\ alive = TRUE
    /\ pc = [t \in Threads |-> IF t \in active THEN "idle" ELSE "off"]
    /\ wake = [t \in Threads |-> "none"]
    /\ ret = [t \in Threads |-> Sentinel]
    /\ held = [t \in Threads |-> Sentinel]
    /\ via = [t \in Threads |-> "none"]
    /\ again = [t \in Threads |-> FALSE]
    /\ filled = [t \in Threads |-> FALSE]
    /\ u32Timeout_ms = [t \in Threads |-> 0]
    /\ elapsed = [t \in Threads |-> 0]
    /\ nWritten = 0
    /\ nRead = 0
    /\ jWrite = 0

\* one producer and one consumer
OneEach == {"p1", "c1"}

Init ==
    /\ Constructed(NElements, ElementSize)
    /\ Started(OneEach)
    /\ sent = <<>>

----------------------------------------------------------------------------
(* getNextReadIndex *)

\* `return index' of an acquire call `call' of thread t
returns(t, call, index) ==
    /\ ret' = [ret EXCEPT ![t] = index]
    /\ via' = [via EXCEPT ![t] = call]
    /\ IF index = Sentinel
       THEN UNCHANGED <<held, again>>
       ELSE /\ held' = [held EXCEPT ![t] = index]
            /\ again' = [again EXCEPT ![t] = held[t] # Sentinel]

\* timed_wait(oLock, milliseconds(u32Timeout)) begins: the thread gives up
\* the mutex and blocks
timed_wait(t, u32Timeout) ==
    /\ pc' = [pc EXCEPT ![t] = "waiting"]
    /\ u32Timeout_ms' = [u32Timeout_ms EXCEPT ![t] = u32Timeout]
    /\ elapsed' = [elapsed EXCEPT ![t] = 0]

\* the call returns without having waited
no_wait(t) ==
    /\ pc' = pc
    /\ u32Timeout_ms' = [u32Timeout_ms EXCEPT ![t] = 0]
    /\ elapsed' = [elapsed EXCEPT ![t] = 0]

\* timed_wait has ended and the thread has the mutex again
waited(t, timed_out) ==
    /\ pc' = [pc EXCEPT ![t] = "idle"]
    /\ elapsed' = [elapsed EXCEPT ![t] = 0]
    /\ u32Timeout_ms' =
          IF timed_out THEN u32Timeout_ms ELSE [u32Timeout_ms EXCEPT ![t] = 0]

\* the duration of the wait of thread t has run out
expired(t) == elapsed[t] >= u32Timeout_ms[t]

\* a slip: the acquire also moves the read cursor on
getNextReadIndexAdvancing(t, u32Timeout) ==
    /\ alive /\ t \in Consumers /\ pc[t] = "idle"
    /\ IF m_u32Level = 0
       THEN /\ timed_wait(t, u32Timeout)
            /\ UNCHANGED <<ret, held, via, again, m_u32ReadIndex>>
       ELSE /\ returns(t, "getNextReadIndex", m_u32ReadIndex)
            /\ m_u32ReadIndex' = advance(m_u32ReadIndex)
            /\ no_wait(t)
    /\ UNCHANGED <<m_vTCircularBuffer, m_vi64Timestamps_us, m_u32WriteIndex,
                   m_u32Level, alive, wake, filled, nWritten, jWrite, nRead,
                   sent>>

\* the call up to its return or, on an empty ring, up to the wait
getNextReadIndex(t, u32Timeout) ==
    /\ alive /\ t \in Consumers /\ pc[t] = "idle"
    /\ IF m_u32Level = 0
       THEN /\ timed_wait(t, u32Timeout)
            /\ UNCHANGED <<ret, held, via, again>>
       ELSE /\ returns(t, "getNextReadIndex", m_u32ReadIndex)
            /\ no_wait(t)
    /\ UNCHANGED <<ring, alive, wake, filled, nWritten, jWrite, nRead, sent>>

\* timed_wait returned true: the index is read without looking at the level
getNextReadIndexWoken(t) ==
    /\ t \in Consumers /\ pc[t] = "waiting" /\ wake[t] # "none"
    /\ waited(t, FALSE)
    /\ wake' = [wake EXCEPT ![t] = "none"]
    /\ returns(t, "getNextReadIndex", m_u32ReadIndex)
    /\ UNCHANGED <<ring, alive, filled, nWritten, jWrite, nRead, sent>>

\* a slip: a duration of 0 is taken to mean no time limit
getNextReadIndexTimedOutUnlessZero(t) ==
    /\ t \in Consumers /\ pc[t] = "waiting" /\ wake[t] = "none"
    /\ expired(t) /\ u32Timeout_ms[t] # 0
    /\ waited(t, TRUE)
    /\ returns(t, "getNextReadIndex", Sentinel)
    /\ UNCHANGED <<ring, alive, wake, filled, nWritten, jWrite, nRead, sent>>

\* timed_wait returned false, the duration having run out: return -1
getNextReadIndexTimedOut(t) ==
    /\ t \in Consumers /\ pc[t] = "waiting" /\ wake[t] = "none"
    /\ expired(t)
    /\ waited(t, TRUE)
    /\ returns(t, "getNextReadIndex", Sentinel)
    /\ UNCHANGED <<ring, alive, wake, filled, nWritten, jWrite, nRead, sent>>

----------------------------------------------------------------------------
(* getNextWriteIndex, tryToGetNextWriteIndex *)

\* a variant: the call also waits while another thread holds the index at
\* the write cursor
getNextWriteIndexReserving(t, u32Timeout) ==
    /\ alive /\ t \in Producers /\ pc[t] = "idle"
    /\ IF \/ m_u32Level >= size
          \/ \E u \in Threads \ {t} : held[u] = m_u32WriteIndex
       THEN /\ timed_wait(t, u32Timeout)
            /\ UNCHANGED <<ret, held, via, again>>
       ELSE /\ returns(t, "getNextWriteIndex", m_u32WriteIndex)
            /\ no_wait(t)
    /\ UNCHANGED <<ring, alive, wake, filled, nWritten, jWrite, nRead, sent>>

getNextWriteIndex(t, u32Timeout) ==
    /\ alive /\ t \in Producers /\ pc[t] = "idle"
    /\ IF m_u32Level >= size
       THEN /\ timed_wait(t, u32Timeout)
            /\ UNCHANGED <<ret, held, via, again>>
       ELSE /\ returns(t, "getNextWriteIndex", m_u32WriteIndex)
            /\ no_wait(t)
    /\ UNCHANGED <<ring, alive, wake, filled, nWritten, jWrite, nRead, sent>>

getNextWriteIndexWoken(t) ==
    /\ t \in Producers /\ pc[t] = "waiting" /\ wake[t] # "none"
    /\ waited(t, FALSE)
    /\ wake' = [wake EXCEPT ![t] = "none"]
    /\ returns(t, "getNextWriteIndex", m_u32WriteIndex)
    /\ UNCHANGED <<ring, alive, filled, nWritten, jWrite, nRead, sent>>

getNextWriteIndexTimedOut(t) ==
    /\ t \in Producers /\ pc[t] = "waiting" /\ wake[t] = "none"
    /\ expired(t)
    /\ waited(t, TRUE)
    /\ returns(t, "getNextWriteIndex", Sentinel)
    /\ UNCHANGED <<ring, alive, wake, filled, nWritten, jWrite, nRead, sent>>

\* a slip: the non-blocking call waits like getNextWriteIndex(0)
tryToGetNextWriteIndexWaiting(t) == getNextWriteIndex(t, 0)

tryToGetNextWriteIndex(t) ==
    /\ alive /\ t \in Producers /\ pc[t] = "idle"
    /\ IF m_u32Level >= size
       THEN returns(t, "tryToGetNextWriteIndex", Sentinel)
       ELSE returns(t, "tryToGetNextWriteIndex", m_u32WriteIndex)
    /\ no_wait(t)
    /\ UNCHANGED <<ring, alive, wake, filled, nWritten, jWrite, nRead, sent>>

\* timed_wait returning true with no notification (a spurious wake-up), at
\* either call site
timed_wait_spurious(t) ==
    /\ pc[t] = "waiting" /\ wake[t] = "none"
    /\ wake' = [wake EXCEPT ![t] = "spurious"]
    /\ stop_timers({t})
    /\ UNCHANGED <<ring, alive, pc, ret, held, via, again, filled, nWritten,
                   jWrite, nRead, sent>>

\* a millisecond passes for every thread blocked in timed_wait whose
\* duration has not run out
tick ==
    /\ \E t \in Threads : pc[t] = "waiting" /\ wake[t] = "none" /\ ~expired(t)
    /\ elapsed' = [t \in Threads |->
                      IF pc[t] = "waiting" /\ wake[t] = "none" /\ ~expired(t)
                      THEN elapsed[t] + 1
                      ELSE elapsed[t]]
    /\ UNCHANGED <<ring, alive, pc, wake, ret, held, via, again, filled,
                   u32Timeout_ms, nWritten, jWrite, nRead, sent>>

----------------------------------------------------------------------------
(* the producer's unlocked work on the slot it acquired *)

setElementTimestamp(uiIndex, i64Timestamp_us) ==
    [m_vi64Timestamps_us EXCEPT ![uiIndex + 1] = i64Timestamp_us]

\* k values v written at the start of the slot, setDataSpan(0, k), and the
\* slot's timestamp set
fill(t, k, v, ts) ==
    /\ alive /\ t \in Producers /\ pc[t] = "idle"
    /\ held[t] # Sentinel /\ ~filled[t]
    /\ m_vTCircularBuffer' =
          [m_vTCircularBuffer EXCEPT
              ![held[t] + 1] = setDataSpan(writeData(@, k, v), 0, k)]
    /\ m_vi64Timestamps_us' = setElementTimestamp(held[t], ts)
    /\ filled' = [filled EXCEPT ![t] = TRUE]
    /\ UNCHANGED <<m_u32ReadIndex, m_u32WriteIndex, m_u32Level, alive, pc,
                   wake, ret, held, via, again, u32Timeout_ms, elapsed,
                   nWritten, jWrite, nRead, sent>>

\* setElementTimestamp(uiIndex, i64Timestamp_us) called on its own, by any
\* thread, for any slot of the ring
stampClearing(t, uiIndex, i64Timestamp_us, cleared) ==
    /\ alive /\ pc[t] = "idle"
    /\ uiIndex < size
    /\ m_vi64Timestamps_us' = setElementTimestamp(uiIndex, i64Timestamp_us)
    /\ m_vTCircularBuffer' =
          [i \in DOMAIN m_vTCircularBuffer |->
              IF i - 1 \in cleared
              THEN setEmpty(m_vTCircularBuffer[i])
              ELSE m_vTCircularBuffer[i]]
    /\ UNCHANGED <<m_u32ReadIndex, m_u32WriteIndex, m_u32Level, alive, pc,
                   wake, ret, held, via, again, filled, u32Timeout_ms, elapsed,
                   nWritten, jWrite, nRead, sent>>

\* a slip: the slot stamped is set empty as well
stampEmptying(t, uiIndex, i64Timestamp_us) ==
    stampClearing(t, uiIndex, i64Timestamp_us, {uiIndex})

stamp(t, uiIndex, i64Timestamp_us) ==
    stampClearing(t, uiIndex, i64Timestamp_us, {})

\* the thread that acquired a slot calls one of the slot's span functions,
\* after which the slot is e
spanSet(t, e) ==
    /\ alive /\ pc[t] = "idle"
    /\ m_vTCircularBuffer' = [m_vTCircularBuffer EXCEPT ![held[t] + 1] = e]
    /\ UNCHANGED <<m_vi64Timestamps_us, m_u32ReadIndex, m_u32WriteIndex,
                   m_u32Level, alive, pc, wake, ret, held, via, again, filled,
                   u32Timeout_ms, elapsed, nWritten, jWrite, nRead, sent>>

----------------------------------------------------------------------------
(* elementRead, elementWritten *)

\* the history of slot uiIndex becomes h, where a history is kept
recorded(uiIndex, h) ==
    sent' = IF sent = <<>> THEN sent ELSE [sent EXCEPT ![uiIndex + 1] = h]

\* the commit of thread t ends its hold on the index it acquired; it comes
\* after the commit's notification
released(t) ==
    /\ ret' = [ret EXCEPT ![t] = Sentinel]
    /\ held' = [held EXCEPT ![t] = Sentinel]
    /\ via' = [via EXCEPT ![t] = "none"]
    /\ again' = [again EXCEPT ![t] = FALSE]
    /\ stop_timers({t} \cup Woken)

\* elementRead, with the level at which it notifies as a parameter
elementReadNotifyingAt(t, u32NotifyLevel) ==
    /\ alive /\ t \in Consumers /\ pc[t] = "idle"
    /\ held[t] # Sentinel
    /\ m_vTCircularBuffer' =
          [m_vTCircularBuffer EXCEPT ![m_u32ReadIndex + 1] = setEmpty(@)]
    /\ m_u32Level' = U32(m_u32Level - 1)
    /\ m_u32ReadIndex' = advance(m_u32ReadIndex)
    /\ IF m_u32Level' = u32NotifyLevel
       THEN notify_one(Producers, "commit")
       ELSE wake' = wake
    /\ released(t)
    /\ nRead' = (nRead + 1) % SeqModulus
    /\ recorded(m_u32ReadIndex, <<>>)
    /\ UNCHANGED <<m_vi64Timestamps_us, m_u32WriteIndex, alive, pc, filled,
                   nWritten, jWrite>>

\* a slip: the slot just emptied is handed to the producer as the next one
\* to write
elementReadHandingBack(t) ==
    /\ alive /\ t \in Consumers /\ pc[t] = "idle"
    /\ held[t] # Sentinel
    /\ m_vTCircularBuffer' =
          [m_vTCircularBuffer EXCEPT ![m_u32ReadIndex + 1] = setEmpty(@)]
    /\ m_u32Level' = U32(m_u32Level - 1)
    /\ m_u32WriteIndex' = m_u32ReadIndex
    /\ m_u32ReadIndex' = advance(m_u32ReadIndex)
    /\ IF m_u32Level' = size - 1
       THEN notify_one(Producers, "commit")
       ELSE wake' = wake
    /\ released(t)
    /\ nRead' = (nRead + 1) % SeqModulus
    /\ recorded(m_u32ReadIndex, <<>>)
    /\ UNCHANGED <<m_vi64Timestamps_us, alive, pc, filled, nWritten, jWrite>>

\* a slip: if(m_u32Level == m_vTCircularBuffer.size())
elementReadNotifyingAtSize(t) == elementReadNotifyingAt(t, size)

elementRead(t) == elementReadNotifyingAt(t, size - 1)

\* elementWritten, with the level at which it notifies as a parameter
elementWrittenNotifyingAt(t, u32NotifyLevel) ==
    /\ alive /\ t \in Producers /\ pc[t] = "idle"
    /\ held[t] # Sentinel /\ filled[t]
    /\ m_u32Level' = U32(m_u32Level + 1)
    /\ m_u32WriteIndex' = advance(m_u32WriteIndex)
    /\ IF m_u32Level' = u32NotifyLevel
       THEN notify_one(Consumers, "commit")
       ELSE wake' = wake
    /\ released(t)
    /\ filled' = [filled EXCEPT ![t] = FALSE]
    /\ nWritten' = (nWritten + 1) % SeqModulus
    /\ jWrite' = (jWrite + 1) % size
    /\ recorded(m_u32WriteIndex, <<spanData(getElementPointer(m_u32WriteIndex))>>)
    /\ UNCHANGED <<m_vTCircularBuffer, m_vi64Timestamps_us, m_u32ReadIndex,
                   alive, pc, nRead>>

\* a slip: if(m_u32Level == 0)
elementWrittenNotifyingAtZero(t) == elementWrittenNotifyingAt(t, 0)

\* a slip: if(m_u32Level == m_vTCircularBuffer.size())
elementWrittenNotifyingWhenFull(t) == elementWrittenNotifyingAt(t, size)

elementWritten(t) == elementWrittenNotifyingAt(t, 1)

----------------------------------------------------------------------------
(* clear, ~cThreadSafeCircularBuffer *)

\* clear(), with the value it gives the level as a parameter; called by a
\* thread that is outside its own acquire/commit pair
clearSetting(t, u32Level) ==
    /\ alive /\ pc[t] = "idle" /\ held[t] = Sentinel /\ ~filled[t]
    /\ m_u32ReadIndex' = 0
    /\ m_u32WriteIndex' = 0
    /\ m_u32Level' = u32Level
    /\ m_vTCircularBuffer' =
          [i \in DOMAIN m_vTCircularBuffer |-> setEmpty(m_vTCircularBuffer[i])]
    /\ m_vi64Timestamps_us' = [i \in DOMAIN m_vi64Timestamps_us |-> 0]
    /\ notify_one(Producers, "clear")
    /\ nRead' = 0
    /\ nWritten' = 0
    /\ jWrite' = 0
    /\ sent' = [i \in DOMAIN sent |-> <<>>]
    /\ stop_timers(Woken)
    /\ UNCHANGED <<alive, pc, ret, held, via, again, filled>>

\* a slip: the level is not reset
clearKeepingLevel(t) == clearSetting(t, m_u32Level)

clear(t) == clearSetting(t, 0)

\* resize(nElements, uiElementSize), called while no thread is inside a call
\* or between an acquire and its commit: the two vectors and every slot are
\* resized; m_u32ReadIndex, m_u32WriteIndex and m_u32Level are not assigned
resize(nElements, uiElementSize) ==
    /\ alive
    /\ \A t \in Threads :
          pc[t] \in {"idle", "off"} /\ held[t] = Sentinel /\ ~filled[t]
    /\ m_vTCircularBuffer' =
          [i \in 1 .. nElements |->
              resizeElement(
                  vector_resize(m_vTCircularBuffer, nElements, cBufferElement(0))[i],
                  uiElementSize)]
    /\ m_vi64Timestamps_us' = vector_resize(m_vi64Timestamps_us, nElements, 0)
    /\ UNCHANGED <<m_u32ReadIndex, m_u32WriteIndex, m_u32Level, alive, pc,
                   wake, ret, held, via, again, filled, u32Timeout_ms,
                   elapsed, nWritten, jWrite, nRead, sent>>

\* the destructor: both conditions are broadcast; no call starts afterwards
destructor ==
    /\ alive
    /\ alive' = FALSE
    /\ notify_all("destroy")
    /\ stop_timers(Woken)
    /\ UNCHANGED <<ring, pc, ret, held, via, again, filled, nWritten, jWrite,
                   nRead, sent>>

----------------------------------------------------------------------------
(* Specifications *)

\* the batch a producer writes: ElementSize copies of its tag
batch(tag) == [i \in 1 .. ElementSize |-> tag]

\* the durations a caller passes: none at all up to the default
Timeouts == {0, UINT_MAX}

\* the length of the producer's n-th batch when it varies the lengths:
\* every length from 0 to the capacity, in turn
lengthOf(n) == n % (ElementSize + 1)

\* the acquire/commit protocol of the threads that exist on the runs where
\* timed_wait returns by a notification or a timeout, the acquire calls
\* passing a timeout in T.  The producer's batches are of every length in
\* turn if `varied', else whole slots; their value is the commit number if
\* `tagged', else always 1.  The producer stamps each batch with its commit
\* number plus one if `tagged', else with 1.
Notified(T, varied, tagged) ==
    \/ \E t \in Threads, u32Timeout \in T : getNextReadIndex(t, u32Timeout)
    \/ \E t \in Threads : getNextReadIndexWoken(t)
    \/ \E t \in Threads : getNextReadIndexTimedOut(t)
    \/ \E t \in Threads, u32Timeout \in T : getNextWriteIndex(t, u32Timeout)
    \/ \E t \in Threads : getNextWriteIndexWoken(t)
    \/ \E t \in Threads : getNextWriteIndexTimedOut(t)
    \/ \E t \in Threads : tryToGetNextWriteIndex(t)
    \/ \E t \in Threads :
          fill(t, IF varied THEN lengthOf(nWritten) ELSE ElementSize,
                  IF tagged THEN nWritten ELSE 1,
                  IF tagged THEN nWritten + 1 ELSE 1)
    \/ \E t \in Threads : elementRead(t)
    \/ \E t \in Threads : elementWritten(t)

\* the same, and the returns of timed_wait that no notification caused
Calls(T, varied, tagged) ==
    \/ Notified(T, varied, tagged)
    \/ \E t \in Threads : timed_wait_spurious(t)

\* whole-slot batches, each tagged with its commit number, and waits as
\* short as can be: a timed_wait of 0 ms may time out at any moment after
\* it began, which is what a longer one may do once its milliseconds have
\* passed
Protocol == Calls({0}, FALSE, TRUE)

\* the same with batches that all hold the same value
Untagged == Calls({0}, FALSE, FALSE)

Next == Protocol

\* one producer, one consumer, acquire before commit
Spec == Init /\ [][Next]_vars

\* a woken thread gets the mutex back and returns
Fairness ==
    /\ \A t \in Consumers \cap OneEach : WF_vars(getNextReadIndexWoken(t))
    /\ \A t \in Producers \cap OneEach : WF_vars(getNextWriteIndexWoken(t))

FairSpec == Spec /\ Fairness

\* the protocol with batches of every length up to the capacity
NextSpans == Calls({0}, TRUE, TRUE)

\* slot capacities and span arguments on both sides of what an unsigned
\* short holds
Lengths ==
    {0, 1, 2, UShortModulus - 1, UShortModulus, UShortModulus + 1,
     UShortModulus + 2}

\* the caller's obligation: the span lies inside the storage.  The spans
\* tried are those that start and end at one of Lengths.
InStorage(e) ==
    /\ e.m_u32DataStartIndex + e.m_u32DataSize <= Len(e.m_vTElement)
    /\ e.m_u32DataStartIndex \in Lengths
    /\ e.m_u32DataStartIndex + e.m_u32DataSize \in Lengths

\* rings of every slot capacity in Lengths
InitLengths ==
    /\ \E uiElementSize \in Lengths : Constructed(NElements, uiElementSize)
    /\ Started(OneEach)
    /\ sent = <<>>

\* the producer acquires a slot and calls its span functions, keeping the
\* span inside the storage
NextLengths ==
    \/ \E t \in Threads : tryToGetNextWriteIndex(t)
    \/ \E t \in Threads :
          /\ held[t] # Sentinel
          /\ spanSet(t, setEmpty(getElementPointer(held[t])))
    \/ \E t \in Threads :
          /\ held[t] # Sentinel
          /\ spanSet(t, setFull(getElementPointer(held[t])))
    \/ \E t \in Threads, u32StartIndex \in Lengths, u32Size \in Lengths :
          /\ held[t] # Sentinel
          /\ InStorage(setDataSpan(getElementPointer(held[t]),
                                   u32StartIndex, u32Size))
          /\ spanSet(t, setDataSpan(getElementPointer(held[t]),
                                    u32StartIndex, u32Size))
    \/ \E t \in Threads, u32Size \in Lengths :
          /\ held[t] # Sentinel
          /\ u32Size <= getElementPointer(held[t]).m_u32DataSize
          /\ InStorage(setDataUsed(getElementPointer(held[t]), u32Size))
          /\ spanSet(t, setDataUsed(getElementPointer(held[t]), u32Size))
    \/ \E t \in Threads, u32Size \in Lengths :
          /\ held[t] # Sentinel
          /\ InStorage(setDataAdded(getElementPointer(held[t]), u32Size))
          /\ spanSet(t, setDataAdded(getElementPointer(held[t]), u32Size))

SpecLengths == InitLengths /\ [][NextLengths]_vars

\* the same start, with the history of every slot kept
InitSpans ==
    /\ Constructed(NElements, ElementSize)
    /\ Started(OneEach)
    /\ sent = [i \in 1 .. NElements |-> <<>>]

SpecSpans == InitSpans /\ [][NextSpans]_vars

\* the protocol, with clear() by either thread
NextWithClear ==
    \/ Untagged
    \/ \E t \in Threads : clear(t)

SpecWithClear == Init /\ [][NextWithClear]_vars

\* a role shared by two threads: two consumers with one producer, or two
\* producers with one consumer
InitShared ==
    /\ Constructed(NElements, ElementSize)
    /\ \E active \in {Threads \ {"p2"}, Threads \ {"c2"}} : Started(active)
    /\ sent = <<>>

\* the commits of each role in the runs with a shared role: as many as
\* fill the ring once
Rounds == NElements

\* the protocol of those threads on the runs without spurious wake-ups, up
\* to Rounds commits of each role
NextShared ==
    \/ \E t \in Threads : getNextReadIndex(t, 0)
    \/ \E t \in Threads : getNextReadIndexWoken(t)
    \/ \E t \in Threads : getNextReadIndexTimedOut(t)
    \/ \E t \in Threads : getNextWriteIndex(t, 0)
    \/ \E t \in Threads : getNextWriteIndexWoken(t)
    \/ \E t \in Threads : getNextWriteIndexTimedOut(t)
    \/ \E t \in Threads : tryToGetNextWriteIndex(t)
    \/ \E t \in Threads : fill(t, ElementSize, 1, 1)
    \/ \E t \in Threads : nRead < Rounds /\ elementRead(t)
    \/ \E t \in Threads : nWritten < Rounds /\ elementWritten(t)

SpecShared == InitShared /\ [][NextShared]_vars

\* no thread is inside a call or between an acquire and its commit
Quiet ==
    \A t \in Threads :
        pc[t] \in {"idle", "off"} /\ held[t] = Sentinel /\ ~filled[t]

\* the timestamps a caller sets on its own
Stamps == {0, 1}

\* the protocol, clear() between rounds and setElementTimestamp by the
\* producer, on the runs without spurious wake-ups
NextStamp ==
    \/ Notified({0}, FALSE, FALSE)
    \/ \E t \in Threads : Quiet /\ clear(t)
    \/ \E t \in Producers, uiIndex \in 0 .. size - 1, i64Timestamp_us \in Stamps :
          stamp(t, uiIndex, i64Timestamp_us)

SpecStamp == Init /\ [][NextStamp]_vars

\* the protocol with clear() by either thread at any point outside its own
\* acquire/commit pair, on the runs without spurious wake-ups
NextClearAnywhere ==
    \/ Notified({0}, FALSE, FALSE)
    \/ \E t \in Threads : clear(t)

SpecClearAnywhere == Init /\ [][NextClearAnywhere]_vars

\* the protocol, with clear() by either thread and the destructor
NextClear ==
    \/ NextWithClear
    \/ destructor

SpecClear == Init /\ [][NextClear]_vars

\* the protocol on runs in which timed_wait never returns spuriously
NextNotified == Protocol /\ ~(\E t \in Threads : timed_wait_spurious(t))

SpecNotified == Init /\ [][NextNotified]_vars

\* both cursors designate a slot of the ring
InRange == m_u32ReadIndex < size /\ m_u32WriteIndex < size

\* the protocol, with resize() to a ring of the same size or a smaller one
\* and to slots of the same capacity or a larger one, called between
\* rounds.  A thread that used a cursor outside the ring would read and
\* write past the end of the vectors, so the threads are followed only
\* while the cursors are inside it.
NextResize ==
    \/ InRange /\ Protocol
    \/ \E nElements \in 1 .. NElements,
          uiElementSize \in ElementSize .. ElementSize + 1 :
            resize(nElements, uiElementSize)

SpecResize == Init /\ [][NextResize]_vars

\* the protocol with every timeout a caller may pass, and time passing
NextTimeout ==
    \/ Calls(Timeouts, FALSE, TRUE)
    \/ tick

SpecTimeout == Init /\ [][NextTimeout]_vars

----------------------------------------------------------------------------
(* Properties *)

\* the indices i, i+1, ... (n of them) walking forward modulo size()
SlotsFrom(i, n) == {(i + j) % size : j \in 0 .. n - 1}

\* number of batches committed and not yet released
Outstanding == (nWritten - nRead) % SeqModulus

\* slot i holds a batch that was committed and is not yet released
Occupied(i) ==
    \E j \in 0 .. Outstanding - 1 :
        spanData(getElementPointer(i)) = batch((nRead + j) % SeqModulus)

\* a step of an acquire call of thread t
AcquireStep(t) ==
    \/ \E u32Timeout \in Timeouts : getNextReadIndex(t, u32Timeout)
    \/ getNextReadIndexWoken(t)
    \/ getNextReadIndexTimedOut(t)
    \/ \E u32Timeout \in Timeouts : getNextWriteIndex(t, u32Timeout)
    \/ getNextWriteIndexWoken(t)
    \/ getNextWriteIndexTimedOut(t)
    \/ tryToGetNextWriteIndex(t)

\* the ways a wait ends that are a notification
Notifications == {"commit", "clear", "destroy"}

\* C1: with one producer and one consumer, each committing only after its
\* own successful acquire, 0 <= level <= N and both cursors are in [0, N).
C1_LevelAndCursorsInRange ==
    /\ 0 <= m_u32Level /\ m_u32Level <= size
    /\ 0 <= m_u32ReadIndex /\ m_u32ReadIndex < size
    /\ 0 <= m_u32WriteIndex /\ m_u32WriteIndex < size

\* C2: the occupied slots are exactly the `level' slots from readIndex
\* walking forward modulo N, and writeIndex = (readIndex + level) mod N.
C2_OccupiedFromReadIndex ==
    /\ m_u32WriteIndex = (m_u32ReadIndex + m_u32Level) % size
    /\ Cardinality({i \in 0 .. size - 1 : Occupied(i)}) = m_u32Level
    /\ {i \in 0 .. size - 1 : Occupied(i)} = SlotsFrom(m_u32ReadIndex, m_u32Level)

\* C3: a write index acquired and not yet committed and a read index
\* acquired and not yet committed are never the same slot.
C3_CursorsNeverCollide ==
    \A p \in Producers, c \in Consumers :
        held[p] # Sentinel /\ held[c] # Sentinel => held[p] # held[c]

\* C4: the producer and the consumer are never both blocked, one on the
\* write-possible condition and the other on the read-possible condition.
C4_NoDeadlock ==
    ~(Blocked(Producers) # {} /\ Blocked(Consumers) # {})

\* C4 witness: the producer is blocked on a full ring while the consumer
\* holds the index it acquired.
C4_Witness ==
    /\ "p1" \in Blocked(Producers)
    /\ m_u32Level = size
    /\ held["c1"] # Sentinel

\* C5: a consumer blocked on an empty ring is notified by the next
\* elementWritten, a producer blocked on a full ring by the next
\* elementRead, and a thread so notified returns an index.
C5_NoLostWakeup ==
    /\ [][/\ (Blocked(Consumers) # {} /\ m_u32Level = 0
                 /\ \E p \in Producers : elementWritten(p))
             => \E c \in Blocked(Consumers) : wake'[c] = "commit"
          /\ (Blocked(Producers) # {} /\ m_u32Level = size
                 /\ \E c \in Consumers : elementRead(c))
             => \E p \in Blocked(Producers) : wake'[p] = "commit"]_vars
    /\ \A t \in OneEach :
          (pc[t] = "waiting" /\ wake[t] = "commit")
              ~> (pc[t] = "idle" /\ ret[t] # Sentinel)

\* C5 witness: the consumer, blocked on an empty ring, has been notified by
\* the producer's commit and has not yet returned.
C5_Witness ==
    /\ pc["c1"] = "waiting" /\ wake["c1"] = "commit"
    /\ m_u32Level = 1

\* C6: the batch in the slot the consumer acquired is the batch of the
\* commit whose number is the number of reads committed so far.
C6_FifoDelivery ==
    \A c \in Consumers :
        held[c] # Sentinel =>
            spanData(getElementPointer(held[c])) = batch(nRead)

\* C7: when getNextReadIndex returns an index the level is above 0, and
\* when getNextWriteIndex returns an index the level is below N, whether
\* the call did not wait or its wait ended by a notification from a commit,
\* from clear() or from the destructor.
C7_IndexOnlyWhenAvailable ==
    [][\A t \in Threads :
          /\ (((\E u32Timeout \in Timeouts : getNextReadIndex(t, u32Timeout))
                  \/ (getNextReadIndexWoken(t) /\ wake[t] \in Notifications))
                /\ pc'[t] = "idle" /\ ret'[t] # Sentinel)
             => m_u32Level' > 0
          /\ (((\E u32Timeout \in Timeouts : getNextWriteIndex(t, u32Timeout))
                  \/ (getNextWriteIndexWoken(t) /\ wake[t] \in Notifications))
                /\ pc'[t] = "idle" /\ ret'[t] # Sentinel)
             => m_u32Level' < size]_vars

\* C8: elementWritten adds exactly 1 to the level and moves writeIndex to
\* (writeIndex + 1) mod N, leaving readIndex; elementRead takes exactly 1
\* from the level and moves readIndex to (readIndex + 1) mod N, leaving
\* writeIndex.
C8_CommitEffect ==
    [][\A t \in Threads :
          /\ elementWritten(t) =>
                /\ m_u32Level' = m_u32Level + 1
                /\ m_u32WriteIndex' = (m_u32WriteIndex + 1) % size
                /\ m_u32ReadIndex' = m_u32ReadIndex
          /\ elementRead(t) =>
                /\ m_u32Level' = m_u32Level - 1
                /\ m_u32ReadIndex' = (m_u32ReadIndex + 1) % size
                /\ m_u32WriteIndex' = m_u32WriteIndex]_vars

\* C9: no step of getNextReadIndex, getNextWriteIndex or
\* tryToGetNextWriteIndex changes a cursor, the level, a slot or a
\* timestamp, and an index returned to a thread that already has one, with
\* no commit of its own in between, is the index it has.
C9_AcquireChangesNothing ==
    [][\A t \in Threads :
          AcquireStep(t) =>
              /\ UNCHANGED ring
              /\ (held[t] # Sentinel /\ ret'[t] # Sentinel) => ret'[t] = held[t]]_vars

\* C9 witness: each thread has been returned an index while it already had
\* one, on a ring that holds a stamped batch.
C9_Witness ==
    /\ again["c1"] /\ ret["c1"] # Sentinel
    /\ again["p1"] /\ ret["p1"] # Sentinel
    /\ m_u32Level > 0
    /\ \E i \in DOMAIN m_vi64Timestamps_us : m_vi64Timestamps_us[i] # 0

\* C10: tryToGetNextWriteIndex returns without waiting: the sentinel when
\* level = N, the current writeIndex when level < N.
C10_TryNeverBlocks ==
    [][\A t \in Threads :
          tryToGetNextWriteIndex(t) =>
              /\ pc'[t] = "idle"
              /\ wake'[t] = "none"
              /\ m_u32Level = size => ret'[t] = Sentinel
              /\ m_u32Level < size => ret'[t] = m_u32WriteIndex]_vars

\* C10 witness: tryToGetNextWriteIndex has returned the sentinel on a full
\* ring.
C10_Witness ==
    /\ via["p1"] = "tryToGetNextWriteIndex"
    /\ ret["p1"] = Sentinel
    /\ pc["p1"] = "idle"
    /\ m_u32Level = size

\* C11, as claimed: getNextReadIndex on an empty ring and getNextWriteIndex
\* on a full ring, called with timeout 0 or with no timeout argument
\* (UINT_MAX), never return the sentinel, and return only when a slot is
\* available: level > 0 for a read index, level < N for a write index.
C11_ZeroOrOmittedWaitsForever ==
    [][\A t \in Threads :
          /\ ((getNextReadIndexWoken(t) \/ getNextReadIndexTimedOut(t))
                /\ u32Timeout_ms[t] \in {0, UINT_MAX})
             => (ret'[t] # Sentinel /\ m_u32Level' > 0)
          /\ ((getNextWriteIndexWoken(t) \/ getNextWriteIndexTimedOut(t))
                /\ u32Timeout_ms[t] \in {0, UINT_MAX})
             => (ret'[t] # Sentinel /\ m_u32Level' < size)]_vars

\* C11, amended: a timeout of 0 and the omitted timeout are durations like
\* any other.  A thread blocked in getNextReadIndex or getNextWriteIndex
\* can time out exactly when it has been blocked for the duration it
\* passed, which for 0 is at once and for the omitted timeout after
\* UINT_MAX milliseconds; the call that times out returns the sentinel and
\* leaves the ring as it is.
C11_TimeoutIsADuration ==
    /\ [](\A t \in Blocked(Consumers) :
            (ENABLED getNextReadIndexTimedOut(t))
                <=> elapsed[t] >= u32Timeout_ms[t])
    /\ [](\A t \in Blocked(Producers) :
            (ENABLED getNextWriteIndexTimedOut(t))
                <=> elapsed[t] >= u32Timeout_ms[t])
    /\ [][\A t \in Threads :
            (getNextReadIndexTimedOut(t) \/ getNextWriteIndexTimedOut(t))
                => (ret'[t] = Sentinel /\ UNCHANGED ring)]_vars

\* C11 witness: the consumer's getNextReadIndex(0) has returned the
\* sentinel, and the producer's getNextWriteIndex() with the omitted
\* timeout has returned the sentinel on a ring that is still full.
C11_Witness ==
    /\ pc["c1"] = "idle" /\ via["c1"] = "getNextReadIndex"
    /\ ret["c1"] = Sentinel /\ u32Timeout_ms["c1"] = 0
    /\ pc["p1"] = "idle" /\ via["p1"] = "getNextWriteIndex"
    /\ ret["p1"] = Sentinel /\ u32Timeout_ms["p1"] = UINT_MAX
    /\ m_u32Level = size

\* C12: resize(n, elementCapacity) on a quiescent ring leaves the ring in the
\* state of a freshly constructed ring of n slots of elementCapacity:
\* readIndex = writeIndex = level = 0 and no slot data, span or timestamp
\* from before the call.
C12_ResizeReinitializes ==
    [][\A nElements \in 1 .. NElements,
          uiElementSize \in ElementSize .. ElementSize + 1 :
            resize(nElements, uiElementSize)
                => Constructed(nElements, uiElementSize)']_vars

\* the state clear() is to leave the ring in
Cleared ==
    /\ m_u32ReadIndex = 0 /\ m_u32WriteIndex = 0 /\ m_u32Level = 0
    /\ \A i \in DOMAIN m_vTCircularBuffer :
          /\ m_vTCircularBuffer[i].m_u32DataStartIndex = 0
          /\ m_vTCircularBuffer[i].m_u32DataSize = 0
    /\ \A i \in DOMAIN m_vi64Timestamps_us : m_vi64Timestamps_us[i] = 0

\* C13: clear() leaves readIndex = writeIndex = level = 0, every span (0, 0)
\* and every timestamp 0, with N and the slot capacity as they were; a
\* getNextWriteIndex on the ring so left returns index 0 without waiting;
\* and a producer that was blocked in getNextWriteIndex when clear() ran
\* is woken by it and returns an index in [0, N).
C13_ClearResets ==
    [][\A t \in Threads :
          /\ clear(t) =>
                /\ Cleared'
                /\ Len(m_vTCircularBuffer') = Len(m_vTCircularBuffer)
                /\ \A i \in DOMAIN m_vTCircularBuffer :
                      Len(m_vTCircularBuffer'[i].m_vTElement)
                          = Len(m_vTCircularBuffer[i].m_vTElement)
                /\ Blocked(Producers) # {}
                      => \E p \in Blocked(Producers) : wake'[p] = "clear"
          /\ (Cleared /\ \E u32Timeout \in Timeouts : getNextWriteIndex(t, u32Timeout))
                => (pc'[t] = "idle" /\ ret'[t] = 0)
          /\ (getNextWriteIndexWoken(t) /\ wake[t] = "clear")
                => ret'[t] \in 0 .. size - 1]_vars

\* C13 witness: the producer that was blocked on the full ring has been
\* woken by the consumer's clear() and has not yet returned.
C13_Witness ==
    /\ pc["p1"] = "waiting" /\ wake["p1"] = "clear"
    /\ Cleared

\* C14: absent clear and resize, the index the producer holds after its
\* j-th successful round of getNextWriteIndex / tryToGetNextWriteIndex (j
\* counted from 0 and increased by each elementWritten) is j mod N, however
\* many elementRead calls there have been.
C14_WriteIndexIsRoundModN ==
    \A p \in Producers : held[p] # Sentinel => held[p] = jWrite

\* C14 witness: the consumer has read and released slot 0, the only batch
\* committed so far, and the producer has then been given index 1, not the
\* slot just vacated.
C14_Witness ==
    /\ nWritten = 1 /\ nRead = 1
    /\ m_u32Level = 0 /\ m_u32ReadIndex = 1
    /\ held["p1"] = 1

\* C15: when the producer has written k <= capacity values into the slot it
\* acquired, called setDataSpan(0, k) and committed, the consumer that holds
\* that slot finds dataSize() = k and exactly those k values at the start of
\* the span, for as long as it has not called elementRead.
C15_RoundTrip ==
    \A c \in Consumers :
        (held[c] # Sentinel /\ sent[held[c] + 1] # <<>>) =>
            LET b == sent[held[c] + 1][1]
                e == getElementPointer(held[c])
            IN  /\ dataSize(e) = Len(b)
                /\ spanData(e) = b

\* C16: for every span length and capacity that fit the slot's 32-bit
\* fields, dataSize() returns exactly m_u32DataSize and allocationSize()
\* exactly the length of the storage.
C16_QueriesExact ==
    \A i \in DOMAIN m_vTCircularBuffer :
        /\ dataSize(m_vTCircularBuffer[i]) = m_vTCircularBuffer[i].m_u32DataSize
        /\ allocationSize(m_vTCircularBuffer[i]) =
              Len(m_vTCircularBuffer[i].m_vTElement)

\* C17: the acquire and commit functions leave every timestamp unchanged,
\* elementRead changing only the span of the slot at the read index;
\* setElementTimestamp(i, v) changes timestamp i only, and no cursor, level
\* or slot; a timestamp that was set becomes zero only by clear() or by
\* setElementTimestamp(i, 0).
C17_TimestampsIndependent ==
    [][/\ \/ m_vi64Timestamps_us' = m_vi64Timestamps_us
          \/ ~ \E t \in Threads :
                  AcquireStep(t) \/ elementRead(t) \/ elementWritten(t)
       /\ \/ m_vTCircularBuffer' =
                [m_vTCircularBuffer EXCEPT ![m_u32ReadIndex + 1] = setEmpty(@)]
          \/ ~ \E t \in Threads : elementRead(t)
       /\ \A t \in Threads, uiIndex \in 0 .. size - 1, v \in Stamps :
             stamp(t, uiIndex, v) =>
                 /\ \A i \in 0 .. size - 1 :
                       m_vi64Timestamps_us'[i + 1] =
                           IF i = uiIndex THEN v ELSE m_vi64Timestamps_us[i + 1]
                 /\ UNCHANGED <<m_vTCircularBuffer, m_u32ReadIndex,
                                m_u32WriteIndex, m_u32Level>>
       /\ (\E i \in DOMAIN m_vi64Timestamps_us :
               m_vi64Timestamps_us[i] # 0 /\ m_vi64Timestamps_us'[i] = 0) =>
              \/ \E t \in Threads : clear(t)
              \/ \E t \in Threads, uiIndex \in 0 .. size - 1 :
                    stamp(t, uiIndex, 0)]_vars

\* C17 witness: one batch is committed in slot 0 and none was read; slot 0
\* keeps its span though its timestamp was set back to 0, and the untouched
\* slot 1 carries a timestamp.
C17_Witness ==
    /\ nWritten = 1 /\ nRead = 0 /\ m_u32Level = 1
    /\ \A t \in Threads : held[t] = Sentinel
    /\ getElementPointer(0).m_u32DataSize = ElementSize
    /\ m_vi64Timestamps_us[1] = 0
    /\ getElementPointer(1).m_u32DataSize = 0
    /\ m_vi64Timestamps_us[2] = 1

\* C18: elementWritten wakes a thread if and only if it takes the level
\* from 0 to 1 while a consumer is blocked, elementRead if and only if it
\* takes the level from N to N - 1 while a producer is blocked; the commit
\* then wakes exactly one thread, and never one of the committing role.
C18_WakeOnEdgesOnly ==
    [][\A t \in Threads :
          /\ elementWritten(t) =>
                /\ Woken \subseteq Consumers
                /\ Cardinality(Woken) <= 1
                /\ Woken # {} <=>
                      /\ m_u32Level = 0 /\ m_u32Level' = 1
                      /\ Blocked(Consumers) # {}
          /\ elementRead(t) =>
                /\ Woken \subseteq Producers
                /\ Cardinality(Woken) <= 1
                /\ Woken # {} <=>
                      /\ m_u32Level = size /\ m_u32Level' = size - 1
                      /\ Blocked(Producers) # {}]_vars

\* C18 witness: of two consumers blocked on the empty ring, the first
\* commit has woken one and left the other blocked.
C18_Witness ==
    /\ nWritten = 1 /\ nRead = 0 /\ m_u32Level = 1
    /\ \A c \in Consumers : pc[c] = "waiting"
    /\ \E c \in Consumers :
          /\ wake[c] = "commit"
          /\ \A d \in Consumers \ {c} : wake[d] = "none"

\* C19: a producer that calls getNextWriteIndex or tryToGetNextWriteIndex
\* on a ring with room, while another producer holds the index at the write
\* cursor and has not committed it, is given that same index; likewise a
\* consumer that calls getNextReadIndex on a ring with data while another
\* consumer holds the index at the read cursor.
C19_SharedRoleSameIndex ==
    [][/\ \A p \in Producers, q \in Producers :
             (p # q /\ held[q] = m_u32WriteIndex /\ m_u32Level < size) =>
                 /\ (\E u32Timeout \in Timeouts : getNextWriteIndex(p, u32Timeout))
                       => held'[p] = held[q]
                 /\ tryToGetNextWriteIndex(p) => held'[p] = held[q]
       /\ \A c \in Consumers, d \in Consumers :
             (c # d /\ held[d] = m_u32ReadIndex /\ m_u32Level # 0) =>
                 ((\E u32Timeout \in Timeouts : getNextReadIndex(c, u32Timeout))
                     => held'[c] = held[d])]_vars

\* C19 witness: both producers hold the same index, neither has committed
\* it, and both have written their batch into the slot.
C19_Witness ==
    /\ held["p1"] # Sentinel /\ held["p1"] = held["p2"]
    /\ filled["p1"] /\ filled["p2"]

\* the same for the read role: both consumers hold the same index and
\* neither has committed it
C19_ConsumersHoldSameIndex ==
    held["c1"] # Sentinel /\ held["c1"] = held["c2"]

\* C20: with clear() called by either thread at any point outside its own
\* acquire/commit pair, also between the other thread's acquire and its
\* commit, 0 <= level <= N and writeIndex = (readIndex + level) mod N.
C20_ClearKeepsLevelAndCursors ==
    /\ m_u32Level <= size
    /\ m_u32WriteIndex = (m_u32ReadIndex + m_u32Level) % size

=============================================================================
